---------------------------- MODULE Spec2Model ----------------------------
(***************************************************************************)
(* A model of the filetime crate: the FileTime value type, the read        *)
(* adapters, and the per-platform write adapters with the Linux runtime    *)
(* fallback from utimensat/futimens to utimes/lutimes/futimes.             *)
(*                                                                         *)
(* Integers are modelled at a reduced width: a 64-bit seconds word is a    *)
(* SecBits-bit word (arithmetic modulo 2^SecBits, two's complement for the *)
(* signed casts), and the 1601->1970 offset is reduced with it.  The       *)
(* nanosecond field keeps its real values.                                 *)
(***************************************************************************)
EXTENDS Integers, Sequences, FiniteSets, TLC

VARIABLES
    build,      \* the build configuration: target, overflow checks, feature
    ft,         \* two FileTime values under inspection, slots "a" and "b"
    env,        \* the running system: symbols of the C library, the kernel
    fs,         \* the timestamps of each inode, as stat reports them
    ADDR,       \* the symbol caches of utimensat() and futimens()
    INVALID,    \* the ENOSYS latches of set_times and set_file_handle_times
    pc,         \* where each thread stands in its write call
    call,       \* each thread's current write call: request, locals, record
    history     \* the operations of the write calls entered so far, in order

valueVars == <<ft>>
writeVars == <<env, fs, ADDR, INVALID, pc, call, history>>
vars == <<build, ft, env, fs, ADDR, INVALID, pc, call, history>>

---------------------------------------------------------------------------
(* Bounds and program constants *)

\* width of the modelled seconds word (u64 / i64 / time_t in the source)
SecBits == 3

\* 11_644_473_600 in the source; reduced to fit the SecBits-bit word
WINDOWS_EPOCH_OFFSET == 5

NANOS_PER_SEC == 1000000000

\* 1_000_000_000 / 100: the 100ns intervals in one second
INTERVALS_PER_SEC == 10000000

\* write calls one process makes, one after the other
MaxCalls == 3

\* write calls the racing threads make between them
RaceCalls == 2

\* const UTIME_OMIT in to_timespec
UTIME_OMIT == 1073741822

\* libc::AT_SYMLINK_NOFOLLOW
AT_SYMLINK_NOFOLLOW == 256

\* width of the modelled DWORD (u32 in the source); an interval count fills
\* two of them
DwordBits == 13

U64 == 2 ^ SecBits
I64_MIN == 0 - (2 ^ (SecBits - 1))
I64_MAX == (2 ^ (SecBits - 1)) - 1

\* `x as u64` of an i64, and `x as i64` (time_t) of a u64
AsU64(x) == x % U64
AsI64(x) == IF (x % U64) > I64_MAX THEN (x % U64) - U64 ELSE x % U64

\* nanosecond values a caller may hand to the constructor (u32, unchecked)
NanoArgs == {0, 1500, 999999999, 1000000000}
\* nanosecond values the operating system reports in a stat structure
StatNanos == {0, 1500, 999999999}
\* tick counts (100ns intervals since 1601) a Windows metadata query reports
TickSamples == {0, 1, 9999999, 10000000, 50000000, 50000015, 79999999}

Targets == {"unix", "windows"}

---------------------------------------------------------------------------
(* The FileTime value type (lib.rs) *)

IsWindows == build.target = "windows"

FileTime(s, n) == [panic |-> FALSE, seconds |-> s, nanos |-> n]
Panicked == [panic |-> TRUE, seconds |-> 0, nanos |-> 0]

zero == FileTime(0, 0)

EpochShift == IF IsWindows THEN WINDOWS_EPOCH_OFFSET ELSE 0

\* u64 addition: a panic with overflow checks, a wrap without
from_seconds_since_1970(seconds, nanos) ==
    LET sum == seconds + EpochShift IN
    IF sum >= U64 /\ build.overflow_checks
    THEN Panicked
    ELSE FileTime(sum % U64, nanos)

from_os_repr_unix(seconds, nanos) == FileTime(seconds, nanos)

from_os_repr_windows(time) ==
    FileTime(time \div INTERVALS_PER_SEC, (time % INTERVALS_PER_SEC) * 100)

\* meta is a stat record on unix, a record of tick counts on windows
from_last_modification_time(meta) ==
    IF IsWindows
    THEN from_os_repr_windows(meta.last_write_time)
    ELSE from_os_repr_unix(AsU64(meta.mtime), meta.mtime_nsec)

from_last_access_time(meta) ==
    IF IsWindows
    THEN from_os_repr_windows(meta.last_access_time)
    ELSE from_os_repr_unix(AsU64(meta.atime), meta.atime_nsec)

seconds(t) == t.seconds

\* u64 subtraction: a panic with overflow checks, a wrap without
seconds_relative_to_1970(t) ==
    LET d == t.seconds - EpochShift IN
    IF d < 0 /\ build.overflow_checks
    THEN [panic |-> TRUE, value |-> 0]
    ELSE [panic |-> FALSE, value |-> d % U64]

nanoseconds(t) == t.nanos

\* #[derive(Ord, PartialOrd)]: fields compared in declaration order
FileTimeLess(x, y) ==
    \/ x.seconds < y.seconds
    \/ x.seconds = y.seconds /\ x.nanos < y.nanos

\* #[derive(Eq, PartialEq)]
FileTimeEq(x, y) == x.seconds = y.seconds /\ x.nanos = y.nanos

---------------------------------------------------------------------------
(* The file system and the native primitives *)

\* F is a regular file, L a symbolic link whose target is F
Inodes == {"F", "L"}

Resolve(path) == IF path = "L" THEN "F" ELSE path

Stat(asec, ansec, msec, mnsec) ==
    [atime |-> asec, atime_nsec |-> ansec, mtime |-> msec, mtime_nsec |-> mnsec]

\* fs::metadata follows a link, fs::symlink_metadata does not
metadata(fsv, path) == fsv[Resolve(path)]
symlink_metadata(fsv, path) == fsv[path]

\* the states the two files may be in when the process starts
InitialFs ==
    { [i \in Inodes |-> IF i = "F" THEN f ELSE Stat(-1, 500, -1, 500)] :
          f \in {Stat(3, 2500, 3, 2500), Stat(0, 0, 3, 999999999)} }

OsErrors == {"EACCES", "EIO"}

\* utimensat(2) / futimens(3) on `inode`: a pair of timespec, UTIME_OMIT in
\* tv_nsec leaves the field alone
TimespecValid(ts) ==
    ts.tv_nsec = UTIME_OMIT \/ (0 <= ts.tv_nsec /\ ts.tv_nsec < NANOS_PER_SEC)

KernelUtimensat(fsv, inode, times) ==
    [fsv EXCEPT ![inode] =
        Stat(IF times[1].tv_nsec = UTIME_OMIT THEN @.atime
             ELSE times[1].tv_sec,
             IF times[1].tv_nsec = UTIME_OMIT THEN @.atime_nsec
             ELSE times[1].tv_nsec,
             IF times[2].tv_nsec = UTIME_OMIT THEN @.mtime
             ELSE times[2].tv_sec,
             IF times[2].tv_nsec = UTIME_OMIT THEN @.mtime_nsec
             ELSE times[2].tv_nsec)]

UtimensatOutcomes(times) ==
    IF ~env.kernel_utimensat THEN {"ENOSYS"}
    ELSE IF ~(TimespecValid(times[1]) /\ TimespecValid(times[2]))
    THEN {"EINVAL"}
    ELSE {"Ok"} \cup OsErrors

\* utimes(2) / lutimes(3) / futimes(3) on `inode`: a pair of timeval
TimevalValid(tv) == 0 <= tv.tv_usec /\ tv.tv_usec < 1000000

KernelUtimes(fsv, inode, times) ==
    [fsv EXCEPT ![inode] =
        Stat(times[1].tv_sec, times[1].tv_usec * 1000,
             times[2].tv_sec, times[2].tv_usec * 1000)]

UtimesOutcomes(times) ==
    IF ~(TimevalValid(times[1]) /\ TimevalValid(times[2]))
    THEN {"EINVAL"}
    ELSE {"Ok"} \cup OsErrors

---------------------------------------------------------------------------
(* Write requests and the record of a write call *)

None == [some |-> FALSE, seconds |-> 0, nanos |-> 0]
Some(t) == [some |-> TRUE, seconds |-> t.seconds, nanos |-> t.nanos]
unwrap(o) == FileTime(o.seconds, o.nanos)

\* the timestamps a caller asks for
WriteTimes == {FileTime(1, 1500), FileTime(2, 0)}

Threads == {"t1", "t2"}

NoArg == <<>>
Event(name, outcome, arg) == [ev |-> name, out |-> outcome, arg |-> arg]

IdleCall ==
    [op |-> "none", path |-> "F", atime |-> None, mtime |-> None,
     log |-> <<>>, result |-> "none",
     start |-> [ADDR |-> <<>>, INVALID |-> <<>>],
     before |-> <<>>, after |-> <<>>]

\* a call as it is entered: `start` keeps the cache and latch it finds,
\* `before`/`after` will keep the file system around its successful primitive
NewCall(op, path, atime, mtime, addr, invalid) ==
    [op |-> op, path |-> path, atime |-> atime, mtime |-> mtime,
     log |-> <<>>, result |-> "pending",
     start |-> [ADDR |-> addr, INVALID |-> invalid],
     before |-> <<>>, after |-> <<>>]

Logged(c, e) == [c EXCEPT !.log = Append(@, e)]
Finished(c, res) == [c EXCEPT !.result = res]
Wrote(c, fsBefore, fsAfter) == [c EXCEPT !.before = fsBefore, !.after = fsAfter]

WriteAtRest ==
    /\ env = [libc_utimensat |-> TRUE, libc_futimens |-> TRUE,
              kernel_utimensat |-> TRUE, threads |-> {"t1"}]
    /\ fs \in InitialFs
    /\ ADDR = [s \in {"utimensat", "futimens"} |-> 0]
    /\ INVALID = [s \in {"utimensat", "futimens"} |-> FALSE]
    /\ pc = [t \in Threads |-> "idle"]
    /\ call = [t \in Threads |-> IdleCall]
    /\ history = <<>>

---------------------------------------------------------------------------
(* Conversions to the native time structures (unix/mod.rs) *)

to_timespec_ZeroForAbsent(o) ==
    IF o.some
    THEN [tv_sec |-> AsI64(o.seconds), tv_nsec |-> o.nanos]
    ELSE [tv_sec |-> 0, tv_nsec |-> 0]

to_timespec(o) ==
    IF o.some
    THEN [tv_sec |-> AsI64(o.seconds), tv_nsec |-> o.nanos]
    ELSE [tv_sec |-> 0, tv_nsec |-> UTIME_OMIT]

to_timeval(t) ==
    [tv_sec |-> AsI64(t.seconds), tv_usec |-> t.nanos \div 1000]

---------------------------------------------------------------------------
(* unix/linux.rs: utimensat/futimens when the C library and the kernel    *)
(* have them, utimes/lutimes/futimes otherwise.  Each load or store of a  *)
(* static and each native call is one step of the calling thread.         *)

IsLinux == build.target = "linux"

LinuxOps == {"set_file_times", "set_symlink_file_times", "set_file_handle_times"}

\* the high-precision symbol a call resolves; its latch has the same index
SymOf(op) == IF op = "set_file_handle_times" THEN "futimens" ELSE "utimensat"

LowPrimOf(op) ==
    IF op = "set_file_handle_times" THEN "futimes"
    ELSE IF op = "set_symlink_file_times" THEN "lutimes" ELSE "utimes"

flags_Zero(op) == 0

flags(op) == IF op = "set_symlink_file_times" THEN AT_SYMLINK_NOFOLLOW ELSE 0

\* the inode a primitive acts on: a descriptor is its file, a path is
\* resolved unless the call is told not to follow a link
HighTarget(op, path, fl) ==
    IF op = "set_file_handle_times" THEN path
    ELSE IF fl = AT_SYMLINK_NOFOLLOW THEN path ELSE Resolve(path)

LowTarget(prim, path) ==
    IF prim = "utimes" THEN Resolve(path) ELSE path

\* dlsym(RTLD_DEFAULT, name): null, or the address of the symbol
SymbolAddress(sym) == IF sym = "utimensat" THEN 4096 ELSE 8192

dlsym_FutimensMisspelt(sym) ==
    IF sym = "utimensat" /\ env.libc_utimensat THEN SymbolAddress(sym) ELSE 0

dlsym(sym) ==
    IF (IF sym = "utimensat" THEN env.libc_utimensat ELSE env.libc_futimens)
    THEN SymbolAddress(sym) ELSE 0

\* Without the utimensat feature the public functions pass Some for both
\* timestamps; with it a timestamp may be None.  Racing threads ask for
\* one access time and one modification time each.
Concurrent == Cardinality(env.threads) > 1

LinuxTimes(field) ==
    IF Concurrent
    THEN (IF field = "atime" THEN {FileTime(1, 1500)} ELSE {FileTime(2, 0)})
    ELSE WriteTimes

LinuxOptions(field) ==
    IF build.feature_utimensat /\ ~Concurrent
    THEN {None} \cup {Some(t) : t \in LinuxTimes(field)}
    ELSE {Some(t) : t \in LinuxTimes(field)}

CallBudget == IF Concurrent THEN RaceCalls ELSE MaxCalls

LinuxPaths(op) == IF op = "set_file_handle_times" THEN {"F"} ELSE Inodes

LinuxBegin(threads) ==
    /\ build \in [target : {"linux"}, overflow_checks : {FALSE},
                  feature_utimensat : BOOLEAN]
    /\ ft = [s \in {"a", "b"} |->
                [st |-> "none", val |-> zero, via |-> "none", argS |-> 0,
                 argN |-> 0, instant |-> 0]]
    /\ env \in [libc_utimensat : BOOLEAN, libc_futimens : BOOLEAN,
                kernel_utimensat : BOOLEAN, threads : {threads}]
    /\ fs = [i \in Inodes |-> IF i = "F" THEN Stat(3, 2500, 3, 2500)
                             ELSE Stat(-1, 500, -1, 500)]
    /\ ADDR = [s \in {"utimensat", "futimens"} |-> 0]
    /\ INVALID = [s \in {"utimensat", "futimens"} |-> FALSE]
    /\ pc = [t \in Threads |-> "idle"]
    /\ call = [t \in Threads |-> IdleCall]
    /\ history = <<>>

\* set_times / set_file_handle_times is entered
LinuxEnter(t) ==
    /\ IsLinux /\ t \in env.threads /\ pc[t] = "idle" /\ Len(history) < CallBudget
    /\ \E op \in LinuxOps, a \in LinuxOptions("atime"),
          m \in LinuxOptions("mtime") :
         \E p \in LinuxPaths(op) :
            /\ call' = [call EXCEPT ![t] = NewCall(op, p, a, m, ADDR, INVALID)]
            /\ history' = Append(history, op)
    /\ pc' = [pc EXCEPT ![t] =
                 IF build.feature_utimensat THEN "load_addr"
                 ELSE "load_invalid"]
    /\ UNCHANGED <<build, ft, env, fs, ADDR, INVALID>>

LoadInvalid_Ignored(t) ==
    /\ pc[t] = "load_invalid"
    /\ call' = [call EXCEPT ![t] =
                   Logged(@, Event("load_INVALID", "false", NoArg))]
    /\ pc' = [pc EXCEPT ![t] = "load_addr"]
    /\ UNCHANGED <<build, ft, env, fs, ADDR, INVALID, history>>

\* if !INVALID.load(Ordering::SeqCst)
LoadInvalid(t) ==
    /\ pc[t] = "load_invalid"
    /\ LET v == INVALID[SymOf(call[t].op)] IN
       /\ call' = [call EXCEPT ![t] =
                      Logged(@, Event("load_INVALID",
                                      IF v THEN "true" ELSE "false", NoArg))]
       /\ pc' = [pc EXCEPT ![t] = IF v THEN "fallback" ELSE "load_addr"]
    /\ UNCHANGED <<build, ft, env, fs, ADDR, INVALID, history>>

\* the result of utimensat() / futimens() once the cache value is known:
AfterLookup_FallbackInEveryBuild(c, val) ==
    IF val # 1 THEN [pc |-> "call_ns", call |-> c]
    ELSE [pc |-> "fallback", call |-> c]

\* Some(f) goes on to the native call; None is an error with the feature
\* and the fallback without it
AfterLookup(c, val) ==
    IF val # 1 THEN [pc |-> "call_ns", call |-> c]
    ELSE IF build.feature_utimensat
    THEN [pc |-> "done", call |-> Finished(c, "NotFound")]
    ELSE [pc |-> "fallback", call |-> c]

LoadAddr_AlwaysLookup(t) ==
    /\ pc[t] = "load_addr"
    /\ call' = [call EXCEPT ![t] =
                   Logged(@, Event("load_ADDR", "0", NoArg))]
    /\ pc' = [pc EXCEPT ![t] = "dlsym"]
    /\ UNCHANGED <<build, ft, env, fs, ADDR, INVALID, history>>

\* match ADDR.load(Ordering::SeqCst)
LoadAddr(t) ==
    /\ pc[t] = "load_addr"
    /\ LET v == ADDR[SymOf(call[t].op)]
           c == Logged(call[t], Event("load_ADDR",
                                      IF v = 0 THEN "0"
                                      ELSE IF v = 1 THEN "1" ELSE "n", NoArg))
           nxt == IF v = 0 THEN [pc |-> "dlsym", call |-> c]
                  ELSE AfterLookup(c, v) IN
       /\ call' = [call EXCEPT ![t] = nxt.call]
       /\ pc' = [pc EXCEPT ![t] = nxt.pc]
    /\ UNCHANGED <<build, ft, env, fs, ADDR, INVALID, history>>

DlsymStore_LateReset(t) ==
    /\ pc[t] = "dlsym"
    /\ LET sym == SymOf(call[t].op)
           found == dlsym(sym)
           val == IF found = 0 THEN 1 ELSE found
           c == Logged(Logged(call[t],
                              Event("dlsym",
                                    IF found = 0 THEN "null" ELSE "n", NoArg)),
                       Event("store_ADDR", IF val = 1 THEN "1" ELSE "n", NoArg))
           nxt == AfterLookup(c, val) IN
       /\ ADDR' = [ADDR EXCEPT ![sym] = IF @ = 0 THEN val ELSE 0]
       /\ call' = [call EXCEPT ![t] = nxt.call]
       /\ pc' = [pc EXCEPT ![t] = nxt.pc]
    /\ UNCHANGED <<build, ft, env, fs, INVALID, history>>

\* libc::dlsym(..); ADDR.store(val, Ordering::SeqCst); return ret
DlsymStore(t) ==
    /\ pc[t] = "dlsym"
    /\ LET sym == SymOf(call[t].op)
           found == dlsym(sym)
           val == IF found = 0 THEN 1 ELSE found
           c == Logged(Logged(call[t],
                              Event("dlsym",
                                    IF found = 0 THEN "null" ELSE "n", NoArg)),
                       Event("store_ADDR", IF val = 1 THEN "1" ELSE "n", NoArg))
           nxt == AfterLookup(c, val) IN
       /\ ADDR' = [ADDR EXCEPT ![sym] = val]
       /\ call' = [call EXCEPT ![t] = nxt.call]
       /\ pc' = [pc EXCEPT ![t] = nxt.pc]
    /\ UNCHANGED <<build, ft, env, fs, INVALID, history>>

AfterNs_ReturnAll(c, out) == [pc |-> "done", call |-> Finished(c, out)]

AfterNs_RetryAnyError(c, out) ==
    IF out # "Ok" /\ ~build.feature_utimensat
    THEN [pc |-> "store_invalid", call |-> c]
    ELSE [pc |-> "done", call |-> Finished(c, out)]

\* what follows the native high-precision call: ENOSYS falls through to the
\* latch without the feature, anything else is returned
AfterNs(c, out) ==
    IF out = "ENOSYS" /\ ~build.feature_utimensat
    THEN [pc |-> "store_invalid", call |-> c]
    ELSE [pc |-> "done", call |-> Finished(c, out)]

\* super::utimensat(p, atime, mtime, f, flags) /
\* super::futimens(f, atime, mtime, func), through call_ns_helper
CallNs(t) ==
    /\ pc[t] = "call_ns"
    /\ LET c == call[t]
           times == <<to_timespec(c.atime), to_timespec(c.mtime)>>
           inode == HighTarget(c.op, c.path, flags(c.op)) IN
       \E out \in UtimensatOutcomes(times) :
          LET fsNew == IF out = "Ok" THEN KernelUtimensat(fs, inode, times)
                       ELSE fs
              c1 == Logged(c, Event(SymOf(c.op), out, times))
              c2 == IF out = "Ok" THEN Wrote(c1, fs, fsNew) ELSE c1
              nxt == AfterNs(c2, out) IN
          /\ fs' = fsNew
          /\ call' = [call EXCEPT ![t] = nxt.call]
          /\ pc' = [pc EXCEPT ![t] = nxt.pc]
    /\ UNCHANGED <<build, ft, env, ADDR, INVALID, history>>

StoreInvalid_Toggle(t) ==
    /\ pc[t] = "store_invalid"
    /\ INVALID' = [INVALID EXCEPT ![SymOf(call[t].op)] = ~@]
    /\ call' = [call EXCEPT ![t] =
                   Logged(@, Event("store_INVALID", "true", NoArg))]
    /\ pc' = [pc EXCEPT ![t] = "fallback"]
    /\ UNCHANGED <<build, ft, env, fs, ADDR, history>>

\* INVALID.store(true, Ordering::SeqCst)
StoreInvalid(t) ==
    /\ pc[t] = "store_invalid"
    /\ INVALID' = [INVALID EXCEPT ![SymOf(call[t].op)] = TRUE]
    /\ call' = [call EXCEPT ![t] =
                   Logged(@, Event("store_INVALID", "true", NoArg))]
    /\ pc' = [pc EXCEPT ![t] = "fallback"]
    /\ UNCHANGED <<build, ft, env, fs, ADDR, history>>

\* super::utimes(p, atime.unwrap(), mtime.unwrap(), utimes) /
\* super::futimes(f, atime.unwrap(), mtime.unwrap(), libc::futimes),
\* through call_s_helper
Fallback(t) ==
    /\ pc[t] = "fallback"
    /\ LET c == call[t]
           prim == LowPrimOf(c.op) IN
       IF ~(c.atime.some /\ c.mtime.some)
       THEN /\ call' = [call EXCEPT ![t] =
                           Finished(Logged(c, Event("unwrap", "panic", NoArg)),
                                    "panic")]
            /\ fs' = fs
       ELSE LET times == <<to_timeval(unwrap(c.atime)),
                           to_timeval(unwrap(c.mtime))>>
                inode == LowTarget(prim, c.path) IN
            \E out \in UtimesOutcomes(times) :
               LET fsNew == IF out = "Ok" THEN KernelUtimes(fs, inode, times)
                            ELSE fs
                   c1 == Logged(c, Event(prim, out, times))
                   c2 == IF out = "Ok" THEN Wrote(c1, fs, fsNew) ELSE c1 IN
               /\ fs' = fsNew
               /\ call' = [call EXCEPT ![t] = Finished(c2, out)]
    /\ pc' = [pc EXCEPT ![t] = "done"]
    /\ UNCHANGED <<build, ft, env, ADDR, INVALID, history>>

\* the call has returned to its caller
Return(t) ==
    /\ pc[t] = "done"
    /\ pc' = [pc EXCEPT ![t] = "idle"]
    /\ call' = [call EXCEPT ![t] = IdleCall]
    /\ UNCHANGED <<build, ft, env, fs, ADDR, INVALID, history>>

LinuxNext ==
    \E t \in Threads :
        \/ LinuxEnter(t)
        \/ LoadInvalid(t)
        \/ LoadAddr(t)
        \/ DlsymStore(t)
        \/ CallNs(t)
        \/ StoreInvalid(t)
        \/ Fallback(t)
        \/ Return(t)

\* one thread making its calls one after the other
LinuxInit == LinuxBegin({"t1"})
SpecLinux == LinuxInit /\ [][LinuxNext]_vars

\* two threads whose calls interleave
RaceInit == LinuxBegin(Threads)
SpecLinuxRace == RaceInit /\ [][LinuxNext]_vars

---------------------------------------------------------------------------
(* unix/utimes.rs: utimes/lutimes/futimes only; a timestamp the caller    *)
(* leaves out is read from the file's current metadata.  One call is one  *)
(* step.                                                                  *)

UtimesOps ==
    {"set_file_times", "set_file_mtime", "set_file_atime",
     "set_symlink_file_times", "set_file_handle_times"}

\* the (atime, mtime) each public function hands to set_times /
\* set_file_handle_times
UtimesRequests(op) ==
    LET some == {Some(t) : t \in WriteTimes} IN
    IF op = "set_file_mtime" THEN {None} \X some
    ELSE IF op = "set_file_atime" THEN some \X {None}
    ELSE IF op = "set_file_handle_times"
    THEN (some \cup {None}) \X (some \cup {None})
    ELSE some \X some

UtimesPaths(op) == IF op = "set_file_handle_times" THEN {"F"} ELSE Inodes

\* get_times: the pair to write, or nothing to do; `current` is the
\* metadata the closure returns
get_times(atime, mtime, current) ==
    IF atime.some /\ mtime.some
    THEN [some |-> TRUE, atime |-> unwrap(atime), mtime |-> unwrap(mtime)]
    ELSE IF ~atime.some /\ ~mtime.some
    THEN [some |-> FALSE, atime |-> zero, mtime |-> zero]
    ELSE IF atime.some
    THEN [some |-> TRUE, atime |-> unwrap(atime),
          mtime |-> from_last_modification_time(current)]
    ELSE [some |-> TRUE, atime |-> from_last_access_time(current),
          mtime |-> unwrap(mtime)]

\* get_times calls current() only for a single-sided request
NeedsCurrent(atime, mtime) == atime.some # mtime.some

utimes_to_timeval(t) ==
    [tv_sec |-> AsI64(t.seconds), tv_usec |-> t.nanos \div 1000]

\* set_times / set_file_handle_times from entry to return: `mout` is the
\* outcome of the metadata query when one is made, `out` that of the
\* primitive when one is made
UtimesRun(c, fsv, mout, out) ==
    LET prim == LowPrimOf(c.op)
        current == IF c.op = "set_file_handle_times" THEN fsv[c.path]
                   ELSE metadata(fsv, c.path)
        needs == NeedsCurrent(c.atime, c.mtime)
        c1 == IF needs THEN Logged(c, Event("metadata", mout, NoArg)) ELSE c
        pair == get_times(c.atime, c.mtime, current)
        times == <<utimes_to_timeval(pair.atime), utimes_to_timeval(pair.mtime)>>
        inode == LowTarget(prim, c.path)
        fsNew == KernelUtimes(fsv, inode, times) IN
    IF needs /\ mout # "Ok"
    THEN [call |-> Finished(c1, mout), fs |-> fsv]
    ELSE IF ~pair.some
    THEN [call |-> Finished(c1, "Ok"), fs |-> fsv]
    ELSE IF out # "Ok"
    THEN [call |-> Finished(Logged(c1, Event(prim, out, times)), out),
          fs |-> fsv]
    ELSE [call |-> Finished(Wrote(Logged(c1, Event(prim, out, times)),
                                  fsv, fsNew), "Ok"),
          fs |-> fsNew]

UtimesPrimOutcomes(c, fsv) ==
    LET current == IF c.op = "set_file_handle_times" THEN fsv[c.path]
                   ELSE metadata(fsv, c.path)
        pair == get_times(c.atime, c.mtime, current) IN
    UtimesOutcomes(<<utimes_to_timeval(pair.atime),
                     utimes_to_timeval(pair.mtime)>>)

SequentialBegin(targets) ==
    /\ build \in [target : targets, overflow_checks : {FALSE},
                  feature_utimensat : {FALSE}]
    /\ ft = [s \in {"a", "b"} |->
                [st |-> "none", val |-> zero, via |-> "none", argS |-> 0,
                 argN |-> 0, instant |-> 0]]
    /\ WriteAtRest

UtimesInit == SequentialBegin({"utimes"})

UtimesCall(t) ==
    /\ build.target = "utimes" /\ t \in env.threads /\ pc[t] = "idle"
    /\ Len(history) < MaxCalls
    /\ \E op \in UtimesOps :
       \E p \in UtimesPaths(op), r \in UtimesRequests(op) :
          LET c == NewCall(op, p, r[1], r[2], ADDR, INVALID) IN
          \E mout \in {"Ok"} \cup OsErrors, out \in UtimesPrimOutcomes(c, fs) :
             LET run == UtimesRun(c, fs, mout, out) IN
             /\ call' = [call EXCEPT ![t] = run.call]
             /\ fs' = run.fs
             /\ history' = Append(history, op)
    /\ pc' = [pc EXCEPT ![t] = "done"]
    /\ UNCHANGED <<build, ft, env, ADDR, INVALID>>

UtimesNext == \E t \in Threads : UtimesCall(t) \/ Return(t)

SpecUtimes == UtimesInit /\ [][UtimesNext]_vars

---------------------------------------------------------------------------
(* lib.rs, mod imp: set_file_times_ / set_symlink_file_times_ through     *)
(* utimensat (linux, android, ...) or through utimes / lutimes (macos,    *)
(* the BSDs, ...).  One call is one step.                                 *)

LibOps == {"set_file_times", "set_symlink_file_times"}

\* timestamps a caller can build with from_seconds_since_1970 on unix
LibTimes ==
    {FileTime(1, 1500), FileTime(U64 - 1, 999999999), FileTime(2, 1000000000)}

lib_to_timespec(t) == [tv_sec |-> AsI64(t.seconds), tv_nsec |-> t.nanos]

lib_to_timeval_WholeSeconds(t) ==
    [tv_sec |-> AsI64(t.seconds), tv_usec |-> 0]

lib_to_timeval(t) ==
    [tv_sec |-> AsI64(t.seconds), tv_usec |-> t.nanos \div 1000]

\* set_file_times_ns with the set_time closure of the calling function
set_file_times_ns(c, fsv, out) ==
    LET times == <<lib_to_timespec(unwrap(c.atime)),
                   lib_to_timespec(unwrap(c.mtime))>>
        inode == HighTarget(c.op, c.path, flags(c.op))
        fsNew == KernelUtimensat(fsv, inode, times)
        c1 == Logged(c, Event("utimensat", out, times)) IN
    IF out = "Ok"
    THEN [call |-> Finished(Wrote(c1, fsv, fsNew), "Ok"), fs |-> fsNew]
    ELSE [call |-> Finished(c1, out), fs |-> fsv]

set_file_times_u_AtimeFromFile(c, fsv, out) ==
    LET prim == LowPrimOf(c.op)
        inode == LowTarget(prim, c.path)
        times == <<[tv_sec |-> fsv[inode].mtime,
                    tv_usec |-> fsv[inode].mtime_nsec \div 1000],
                   lib_to_timeval(unwrap(c.mtime))>>
        fsNew == KernelUtimes(fsv, inode, times)
        c1 == Logged(c, Event(prim, out, times)) IN
    IF out = "Ok"
    THEN [call |-> Finished(Wrote(c1, fsv, fsNew), "Ok"), fs |-> fsNew]
    ELSE [call |-> Finished(c1, out), fs |-> fsv]

\* set_file_times_u with the set_time closure of the calling function
set_file_times_u(c, fsv, out) ==
    LET prim == LowPrimOf(c.op)
        times == <<lib_to_timeval(unwrap(c.atime)),
                   lib_to_timeval(unwrap(c.mtime))>>
        inode == LowTarget(prim, c.path)
        fsNew == KernelUtimes(fsv, inode, times)
        c1 == Logged(c, Event(prim, out, times)) IN
    IF out = "Ok"
    THEN [call |-> Finished(Wrote(c1, fsv, fsNew), "Ok"), fs |-> fsNew]
    ELSE [call |-> Finished(c1, out), fs |-> fsv]

LibOutcomes(c) ==
    IF build.target = "lib_utimensat"
    THEN UtimensatOutcomes(<<lib_to_timespec(unwrap(c.atime)),
                             lib_to_timespec(unwrap(c.mtime))>>)
    ELSE UtimesOutcomes(<<lib_to_timeval(unwrap(c.atime)),
                          lib_to_timeval(unwrap(c.mtime))>>)

\* set_file_times_ / set_symlink_file_times_ of the target's mod imp
LibRun(c, fsv, out) ==
    IF build.target = "lib_utimensat"
    THEN set_file_times_ns(c, fsv, out)
    ELSE set_file_times_u(c, fsv, out)

LibInit == SequentialBegin({"lib_utimensat", "lib_utimes"})

LibCall(t) ==
    /\ build.target \in {"lib_utimensat", "lib_utimes"}
    /\ t \in env.threads /\ pc[t] = "idle" /\ Len(history) < MaxCalls
    /\ \E op \in LibOps, p \in Inodes, a \in LibTimes, m \in LibTimes :
          LET c == NewCall(op, p, Some(a), Some(m), ADDR, INVALID) IN
          \E out \in LibOutcomes(c) :
             LET run == LibRun(c, fs, out) IN
             /\ call' = [call EXCEPT ![t] = run.call]
             /\ fs' = run.fs
             /\ history' = Append(history, op)
    /\ pc' = [pc EXCEPT ![t] = "done"]
    /\ UNCHANGED <<build, ft, env, ADDR, INVALID>>

LibNext == \E t \in Threads : LibCall(t) \/ Return(t)

SpecLib == LibInit /\ [][LibNext]_vars

\* the unix write paths that surface operating-system errors: linux.rs
\* over the helpers of unix/mod.rs, and utimes.rs
UnixInit == LinuxInit \/ UtimesInit
UnixNext == LinuxNext \/ (\E t \in Threads : UtimesCall(t))
SpecUnix == UnixInit /\ [][UnixNext]_vars

\* a handle call and a path call side by side: two threads on linux.rs,
\* where each kind of call has its own statics, and utimes.rs
PairInit == RaceInit \/ UtimesInit
PairNext == LinuxNext \/ (\E t \in Threads : UtimesCall(t))
SpecPair == PairInit /\ [][PairNext]_vars

---------------------------------------------------------------------------
(* redox.rs: open the path, futimens on the descriptor, close it.  One    *)
(* call is one step; each system call it makes is an event of its record. *)

RedoxOps == {"set_file_times", "set_symlink_file_times"}

\* the requests the adapter's signature admits
OptionalTimes == {None} \cup {Some(t) : t \in WriteTimes}

\* match (atime, mtime): both, neither, or exactly one
SingleSided(atime, mtime) == atime.some # mtime.some

redox_to_timespec(t) == [tv_sec |-> AsI64(t.seconds), tv_nsec |-> t.nanos]

\* syscall::open(path, 0) resolves a link, O_NOFOLLOW opens the link
RedoxTarget(op, path) ==
    IF op = "set_symlink_file_times" THEN path ELSE Resolve(path)

\* let _ = close(fd) is dropped on a futimens error
set_file_times_redox_CloseOnSuccess(c, fsv, out, cout) ==
    LET times == <<redox_to_timespec(unwrap(c.atime)),
                   redox_to_timespec(unwrap(c.mtime))>>
        fsNew == KernelUtimensat(fsv, RedoxTarget(c.op, c.path), times)
        c1 == Logged(c, Event("futimens", out, times)) IN
    IF out = "Ok"
    THEN [call |-> Finished(Wrote(Logged(c1, Event("close", cout, NoArg)),
                                  fsv, fsNew), "Ok"),
          fs |-> fsNew]
    ELSE [call |-> Finished(c1, out), fs |-> fsv]

\* set_file_times_redox(fd, atime, mtime): futimens, then close whose result
\* is dropped, then the result of futimens
set_file_times_redox(c, fsv, out, cout) ==
    LET times == <<redox_to_timespec(unwrap(c.atime)),
                   redox_to_timespec(unwrap(c.mtime))>>
        fsNew == KernelUtimensat(fsv, RedoxTarget(c.op, c.path), times)
        c1 == Logged(Logged(c, Event("futimens", out, times)),
                     Event("close", cout, NoArg)) IN
    IF out = "Ok"
    THEN [call |-> Finished(Wrote(c1, fsv, fsNew), "Ok"), fs |-> fsNew]
    ELSE [call |-> Finished(c1, out), fs |-> fsv]

\* unimplemented!(..) unwinds out of the function: no io::Result is made
Unimplemented(c) ==
    Finished(Logged(c, Event("unimplemented", "panic", NoArg)), "panic")

\* set_file_times / set_symlink_file_times from entry to return
RedoxRun(c, fsv, oout, out, cout) ==
    IF ~c.atime.some /\ ~c.mtime.some
    THEN [call |-> Finished(c, "Ok"), fs |-> fsv]
    ELSE IF SingleSided(c.atime, c.mtime)
    THEN [call |-> Unimplemented(c), fs |-> fsv]
    ELSE LET c1 == Logged(c, Event("open", oout, NoArg)) IN
         IF oout # "Ok"
         THEN [call |-> Finished(c1, oout), fs |-> fsv]
         ELSE set_file_times_redox(c1, fsv, out, cout)

RedoxCall(t) ==
    /\ build.target = "redox" /\ t \in env.threads /\ pc[t] = "idle"
    /\ Len(history) < MaxCalls
    /\ \E op \in RedoxOps, p \in Inodes, a \in OptionalTimes,
          m \in OptionalTimes :
          LET c == NewCall(op, p, a, m, ADDR, INVALID) IN
          \E oout \in {"Ok"} \cup OsErrors, out \in {"Ok"} \cup OsErrors,
             cout \in {"Ok", "EIO"} :
             LET run == RedoxRun(c, fs, oout, out, cout) IN
             /\ call' = [call EXCEPT ![t] = run.call]
             /\ fs' = run.fs
             /\ history' = Append(history, op)
    /\ pc' = [pc EXCEPT ![t] = "done"]
    /\ UNCHANGED <<build, ft, env, ADDR, INVALID>>

---------------------------------------------------------------------------
(* windows.rs, and mod imp of lib.rs for Windows: open the file (or take  *)
(* the handle) and call SetFileTime.  A file's times are counts of 100ns  *)
(* intervals; a count fills a word of two DWORDs.  One call is one step.  *)

DWORD == 2 ^ DwordBits
TickWord == DWORD * DWORD
TICK_I64_MAX == (TickWord \div 2) - 1

WindowsOps ==
    {"set_file_times", "set_symlink_file_times", "set_file_handle_times"}

Null == [null |-> TRUE, panic |-> FALSE, dwLowDateTime |-> 0,
         dwHighDateTime |-> 0]

FILETIME(low, high) ==
    [null |-> FALSE, panic |-> FALSE, dwLowDateTime |-> low,
     dwHighDateTime |-> high]

\* the words of an interval count: `intervals as DWORD` and
\* `(intervals >> 32) as DWORD`
Split(intervals) ==
    FILETIME((intervals % TickWord) % DWORD, (intervals % TickWord) \div DWORD)

\* windows.rs to_filetime: i64 arithmetic, a panic on overflow with
\* overflow checks and a wrap without
to_filetime(t) ==
    LET intervals == t.seconds * INTERVALS_PER_SEC + (t.nanos \div 100) IN
    IF (intervals > TICK_I64_MAX \/ intervals < 0 - TICK_I64_MAX - 1)
       /\ build.overflow_checks
    THEN [Null EXCEPT !.null = FALSE, !.panic = TRUE]
    ELSE Split(intervals)

\* lib.rs to_filetime: the same in u64 arithmetic
lib_to_filetime(t) ==
    LET intervals == t.seconds * INTERVALS_PER_SEC + (t.nanos \div 100) IN
    IF intervals >= TickWord /\ build.overflow_checks
    THEN [Null EXCEPT !.null = FALSE, !.panic = TRUE]
    ELSE Split(intervals)

\* atime.map(to_filetime)
MapToFiletime(o) ==
    IF ~o.some THEN Null
    ELSE IF build.target = "lib_windows" THEN lib_to_filetime(unwrap(o))
    ELSE to_filetime(unwrap(o))

Ticks(f) == f.dwHighDateTime * DWORD + f.dwLowDateTime

WinTimes(creation, access, write) ==
    [creation_time |-> creation, last_access_time |-> access,
     last_write_time |-> write]

\* SetFileTime(hFile, lpCreationTime, lpLastAccessTime, lpLastWriteTime):
\* a null pointer leaves the time as it is
KernelSetFileTime(fsv, inode, args) ==
    [fsv EXCEPT ![inode] =
        WinTimes(IF args[1].null THEN @.creation_time ELSE Ticks(args[1]),
                 IF args[2].null THEN @.last_access_time ELSE Ticks(args[2]),
                 IF args[3].null THEN @.last_write_time ELSE Ticks(args[3]))]

\* the file a call opens: FILE_FLAG_OPEN_REPARSE_POINT opens the link
WindowsTarget(op, path) ==
    IF op = "set_symlink_file_times" THEN path ELSE Resolve(path)

set_file_times_w_ZeroForAbsent(c, fsv, out) ==
    LET zeroed(o) == IF o.some THEN MapToFiletime(o) ELSE FILETIME(0, 0)
        args == <<Null, zeroed(c.atime), zeroed(c.mtime)>>
        fsNew == KernelSetFileTime(fsv, WindowsTarget(c.op, c.path), args)
        c1 == Logged(c, Event("SetFileTime", out, args)) IN
    IF out = "Ok"
    THEN [call |-> Finished(Wrote(c1, fsv, fsNew), "Ok"), fs |-> fsNew]
    ELSE [call |-> Finished(c1, out), fs |-> fsv]

\* set_file_times_w on the open file: SetFileTime(handle, None, atime, mtime)
set_file_times_w(c, fsv, out) ==
    LET args == <<Null, MapToFiletime(c.atime), MapToFiletime(c.mtime)>>
        fsNew == KernelSetFileTime(fsv, WindowsTarget(c.op, c.path), args)
        c1 == Logged(c, Event("SetFileTime", out, args)) IN
    IF args[2].panic \/ args[3].panic
    THEN [call |-> Finished(Logged(c, Event("to_filetime", "panic", NoArg)),
                            "panic"),
          fs |-> fsv]
    ELSE IF out = "Ok"
    THEN [call |-> Finished(Wrote(c1, fsv, fsNew), "Ok"), fs |-> fsNew]
    ELSE [call |-> Finished(c1, out), fs |-> fsv]

\* a public function of windows.rs / lib.rs from entry to return
WindowsRun(c, fsv, oout, out) ==
    IF c.op = "set_file_handle_times"
    THEN set_file_times_w(c, fsv, out)
    ELSE IF c.op = "set_symlink_file_times" /\ ~c.atime.some /\ ~c.mtime.some
    THEN [call |-> Finished(c, "Ok"), fs |-> fsv]
    ELSE IF c.op = "set_symlink_file_times" /\ SingleSided(c.atime, c.mtime)
    THEN [call |-> Unimplemented(c), fs |-> fsv]
    ELSE LET c1 == Logged(c, Event("open", oout, NoArg)) IN
         IF oout # "Ok"
         THEN [call |-> Finished(c1, oout), fs |-> fsv]
         ELSE set_file_times_w(c1, fsv, out)

\* lib.rs takes FileTime for both timestamps, windows.rs Option<FileTime>
WindowsRequests ==
    IF build.target = "lib_windows"
    THEN {Some(t) : t \in WriteTimes} \X {Some(t) : t \in WriteTimes}
    ELSE OptionalTimes \X OptionalTimes

WindowsPaths(op) == IF op = "set_file_handle_times" THEN {"F"} ELSE Inodes

WindowsCall(t) ==
    /\ build.target \in {"windows", "lib_windows"}
    /\ t \in env.threads /\ pc[t] = "idle" /\ Len(history) < MaxCalls
    /\ \E op \in (IF build.target = "lib_windows"
                  THEN WindowsOps \ {"set_file_handle_times"}
                  ELSE WindowsOps) :
       \E p \in WindowsPaths(op), r \in WindowsRequests :
          LET c == NewCall(op, p, r[1], r[2], ADDR, INVALID) IN
          \E oout \in {"Ok"} \cup OsErrors, out \in {"Ok"} \cup OsErrors :
             LET run == WindowsRun(c, fs, oout, out) IN
             /\ call' = [call EXCEPT ![t] = run.call]
             /\ fs' = run.fs
             /\ history' = Append(history, op)
    /\ pc' = [pc EXCEPT ![t] = "done"]
    /\ UNCHANGED <<build, ft, env, ADDR, INVALID>>

\* the adapters that open the file themselves, at process start
OpenInit ==
    /\ build \in [target : {"redox", "windows", "lib_windows"},
                  overflow_checks : {FALSE}, feature_utimensat : {FALSE}]
    /\ ft = [s \in {"a", "b"} |->
                [st |-> "none", val |-> zero, via |-> "none", argS |-> 0,
                 argN |-> 0, instant |-> 0]]
    /\ env = [libc_utimensat |-> TRUE, libc_futimens |-> TRUE,
              kernel_utimensat |-> TRUE, threads |-> {"t1"}]
    /\ fs = IF build.target = "redox"
            THEN [i \in Inodes |-> IF i = "F" THEN Stat(3, 2500, 3, 2500)
                                   ELSE Stat(-1, 500, -1, 500)]
            ELSE [i \in Inodes |-> IF i = "F"
                                   THEN WinTimes(5, 30000015, 30000020)
                                   ELSE WinTimes(7, 40000001, 40000002)]
    /\ ADDR = [s \in {"utimensat", "futimens"} |-> 0]
    /\ INVALID = [s \in {"utimensat", "futimens"} |-> FALSE]
    /\ pc = [t \in Threads |-> "idle"]
    /\ call = [t \in Threads |-> IdleCall]
    /\ history = <<>>

OpenNext == \E t \in Threads : RedoxCall(t) \/ WindowsCall(t) \/ Return(t)

SpecOpen == OpenInit /\ [][OpenNext]_vars

---------------------------------------------------------------------------
(* What a write call did, read off its record *)

Syms == {"utimensat", "futimens"}
HighPrims == {"utimensat", "futimens"}
LowPrims == {"utimes", "lutimes", "futimes"}

IsPrim(e) == e.ev \in HighPrims \cup LowPrims
IsHighPrim(e) == e.ev \in HighPrims
IsDlsym(e) == e.ev = "dlsym"
IsStore(e) == e.ev \in {"store_ADDR", "store_INVALID"}

PrimEvents(c) == SelectSeq(c.log, IsPrim)
Last(sq) == sq[Len(sq)]

Trunc1000(n) == n - (n % 1000)

\* the inode a request names: the link itself for a no-follow call, the
\* file behind it otherwise; a descriptor names its file
RequestedInode(c) ==
    IF c.op \in {"set_symlink_file_times", "set_file_handle_times"}
    THEN c.path ELSE Resolve(c.path)

\* the stat of the written inode after a successful write of the request:
\* present timestamps as asked (cut to whole microseconds on the
\* low-precision path), absent ones as they were
ExpectedStat(c, low, old) ==
    Stat(IF c.atime.some THEN AsI64(c.atime.seconds) ELSE old.atime,
         IF ~c.atime.some THEN old.atime_nsec
         ELSE IF low THEN Trunc1000(c.atime.nanos) ELSE c.atime.nanos,
         IF c.mtime.some THEN AsI64(c.mtime.seconds) ELSE old.mtime,
         IF ~c.mtime.some THEN old.mtime_nsec
         ELSE IF low THEN Trunc1000(c.mtime.nanos) ELSE c.mtime.nanos)

\* the successful primitive of call c wrote the request to the requested
\* inode and touched no other inode
WroteRequest(c, low) ==
    /\ c.after[RequestedInode(c)]
           = ExpectedStat(c, low, c.before[RequestedInode(c)])
    /\ \A i \in Inodes \ {RequestedInode(c)} : c.after[i] = c.before[i]

\* call c went through exactly one primitive, the low-precision one, made
\* no symbol lookup, and returned that primitive's outcome
OnlyLowPrecision(c) ==
    /\ Len(PrimEvents(c)) = 1
    /\ PrimEvents(c)[1].ev = LowPrimOf(c.op)
    /\ SelectSeq(c.log, IsDlsym) = <<>>
    /\ c.result = PrimEvents(c)[1].out
    /\ c.result = "Ok" => WroteRequest(c, TRUE)

NoHighPrecisionSoFar(c) ==
    /\ SelectSeq(c.log, IsHighPrim) = <<>>
    /\ SelectSeq(c.log, IsDlsym) = <<>>

---------------------------------------------------------------------------
(* The caches after the calls of `ops` made one after the other *)

SeqCall(cache, op) ==
    LET s == SymOf(op)
        val == IF cache.ADDR[s] # 0 THEN cache.ADDR[s]
               ELSE IF dlsym(s) = 0 THEN 1 ELSE dlsym(s) IN
    IF ~build.feature_utimensat /\ cache.INVALID[s]
    THEN cache
    ELSE [ADDR |-> [cache.ADDR EXCEPT ![s] = val],
          INVALID |->
              IF ~build.feature_utimensat /\ val # 1 /\ ~env.kernel_utimensat
              THEN [cache.INVALID EXCEPT ![s] = TRUE]
              ELSE cache.INVALID]

RECURSIVE SeqRun(_, _)
SeqRun(cache, ops) ==
    IF ops = <<>> THEN cache
    ELSE SeqRun(SeqCall(cache, Head(ops)), Tail(ops))

FreshCaches ==
    [ADDR |-> [s \in Syms |-> 0], INVALID |-> [s \in Syms |-> FALSE]]

Orders(n) ==
    {f \in [1 .. n -> 1 .. n] : \A i, j \in 1 .. n : i # j => f[i] # f[j]}

Quiet == \A t \in Threads : pc[t] \in {"idle", "done"}

---------------------------------------------------------------------------
(* Properties of the Linux write path *)

\* C2 (symlink isolation): for the link L to the file F, a successful
\* set_symlink_file_times(L, A, M) sets L's own times and leaves F's
\* alone, and a successful set_file_times(L, A, M) sets F's times and
\* leaves L's alone, on the utimensat path and on the lutimes/utimes path,
\* after any sequence of such calls.
C2_SymlinkIsolation ==
    \A t \in Threads :
        LET c == call[t] IN
        (/\ pc[t] = "done" /\ c.result = "Ok" /\ c.path = "L"
         /\ c.op \in {"set_file_times", "set_symlink_file_times"})
        => LET own == IF c.op = "set_symlink_file_times" THEN "L" ELSE "F"
               other == IF own = "L" THEN "F" ELSE "L"
               low == Last(PrimEvents(c)).ev \in LowPrims IN
           /\ fs = c.after
           /\ c.after[other] = c.before[other]
           /\ c.after[own] = ExpectedStat(c, low, c.before[own])

C2_Witness ==
    \E t \in Threads :
        /\ pc[t] = "done" /\ call[t].result = "Ok" /\ call[t].path = "L"
        /\ call[t].op = "set_symlink_file_times"
        /\ Last(PrimEvents(call[t])).ev = "lutimes"
        /\ call[t].after["L"] # call[t].before["L"]
        /\ Len(history) >= 2

\* what C4 says of a finished call
EnosysHidden(c) ==
    LET prims == PrimEvents(c) IN
    /\ (\E i \in 1 .. Len(prims) :
            IsHighPrim(prims[i]) /\ prims[i].out = "ENOSYS")
       => /\ Len(prims) = 2
          /\ prims[2].ev = LowPrimOf(c.op)
          /\ c.result = prims[2].out
    /\ c.result # "ENOSYS"
    /\ c.result # "NotFound"

LookupAnswers(c) ==
    {c.log[i].out : i \in {j \in 1 .. Len(c.log) :
                              \/ c.log[j].ev = "store_ADDR"
                              \/ c.log[j].ev = "load_ADDR" /\ c.log[j].out # "0"}}

\* a finished call returned the outcome of its last primitive, which, when
\* it succeeded, wrote the request
CompletedByPrimitive(c) ==
    /\ Len(PrimEvents(c)) >= 1
    /\ c.result = Last(PrimEvents(c)).out
    /\ c.result = "Ok" => WroteRequest(c, Last(PrimEvents(c)).ev \in LowPrims)

SameAnswers ==
    \A t, u \in Threads :
        (call[t].op # "none" /\ call[u].op # "none"
         /\ SymOf(call[t].op) = SymOf(call[u].op))
        => Cardinality(LookupAnswers(call[t]) \cup LookupAnswers(call[u])) <= 1

SequentialCaches ==
    Quiet => \E f \in Orders(Len(history)) :
                 [ADDR |-> ADDR, INVALID |-> INVALID]
                     = SeqRun(FreshCaches,
                              [i \in 1 .. Len(history) |-> history[f[i]]])

---------------------------------------------------------------------------
(* Slots holding the values the public constructors and read adapters     *)
(* produce.  `via`, `argS`, `argN` record the call that produced the      *)
(* value and `instant` the moment it denotes, in whole seconds relative   *)
(* to 1970 as the operating system or the caller counts them.             *)

Slots == {"a", "b"}

EmptySlot ==
    [st |-> "none", val |-> zero, via |-> "none", argS |-> 0, argN |-> 0,
     instant |-> 0]

Produced(v, how, s, n, when) ==
    [st |-> IF v.panic THEN "panic" ELSE "value", val |-> v, via |-> how,
     argS |-> s, argN |-> n, instant |-> when]

\* struct stat as fs::Metadata exposes it on unix (signed seconds), and the
\* tick counts of a Windows metadata query; `sec`/`nsec`/`ticks` fill the
\* field the adapter under inspection reads, the other fields are at rest
UnixMeta(field, sec, nsec) ==
    IF field = "mtime"
    THEN [atime |-> 0, atime_nsec |-> 0, mtime |-> sec, mtime_nsec |-> nsec]
    ELSE [atime |-> sec, atime_nsec |-> nsec, mtime |-> 0, mtime_nsec |-> 0]

WindowsMeta(field, ticks) ==
    IF field = "mtime"
    THEN [last_write_time |-> ticks, last_access_time |-> 0,
          creation_time |-> 0]
    ELSE [last_write_time |-> 0, last_access_time |-> ticks,
          creation_time |-> 0]

Metas(field) ==
    IF IsWindows
    THEN {WindowsMeta(field, t) : t \in TickSamples}
    ELSE {UnixMeta(field, sec, nsec) :
              sec \in I64_MIN .. I64_MAX, nsec \in StatNanos}

MetaInstant(meta, field) ==
    IF IsWindows
    THEN (IF field = "mtime" THEN meta.last_write_time
          ELSE meta.last_access_time) \div INTERVALS_PER_SEC
         - WINDOWS_EPOCH_OFFSET
    ELSE IF field = "mtime" THEN meta.mtime ELSE meta.atime

ValueInit ==
    /\ build \in [target : Targets, overflow_checks : BOOLEAN,
                  feature_utimensat : {FALSE}]
    /\ ft = [s \in Slots |-> EmptySlot]
    /\ WriteAtRest

CallZero(s) ==
    /\ ft' = [ft EXCEPT ![s] = Produced(zero, "zero", 0, 0, 0 - EpochShift)]
    /\ UNCHANGED <<build, writeVars>>

CallFromSecondsSince1970(s) ==
    \E S \in 0 .. (U64 - 1), N \in NanoArgs :
        /\ ft' = [ft EXCEPT ![s] =
                     Produced(from_seconds_since_1970(S, N),
                              "from_seconds_since_1970", S, N, S)]
        /\ UNCHANGED <<build, writeVars>>

CallFromLastModificationTime(s) ==
    \E meta \in Metas("mtime") :
        /\ ft' = [ft EXCEPT ![s] =
                     Produced(from_last_modification_time(meta),
                              "from_last_modification_time", 0, 0,
                              MetaInstant(meta, "mtime"))]
        /\ UNCHANGED <<build, writeVars>>

CallFromLastAccessTime(s) ==
    \E meta \in Metas("atime") :
        /\ ft' = [ft EXCEPT ![s] =
                     Produced(from_last_access_time(meta),
                              "from_last_access_time", 0, 0,
                              MetaInstant(meta, "atime"))]
        /\ UNCHANGED <<build, writeVars>>

ValueNext ==
    \E s \in Slots :
        \/ CallZero(s)
        \/ CallFromSecondsSince1970(s)
        \/ CallFromLastModificationTime(s)
        \/ CallFromLastAccessTime(s)

SpecValue == ValueInit /\ [][ValueNext]_vars

---------------------------------------------------------------------------
(* Properties of the value type *)

\* C7 (epoch rebasing): for every S >= 0 and N in [0, 1e9),
\* from_seconds_since_1970(S, N) yields a value whose
\* seconds_relative_to_1970() is S and whose nanoseconds() is N, on the
\* 1970-epoch and on the 1601-epoch target, up to the largest S of the
\* seconds word.
C7_EpochRebasing ==
    \A s \in Slots :
        (ft[s].via = "from_seconds_since_1970" /\ ft[s].argN < NANOS_PER_SEC)
        => /\ ft[s].st = "value"
           /\ seconds_relative_to_1970(ft[s].val)
                  = [panic |-> FALSE, value |-> ft[s].argS]
           /\ nanoseconds(ft[s].val) = ft[s].argN

\* C8 (ordering): FileTime values compare lexicographically by
\* (seconds, nanos), equality is structural, and whenever A denotes a
\* second strictly earlier than B (native seconds before the epoch
\* included) A < B.
C8_Ordering ==
    \A x \in Slots, y \in Slots :
        (ft[x].st = "value" /\ ft[y].st = "value")
        => /\ FileTimeEq(ft[x].val, ft[y].val) <=> (ft[x].val = ft[y].val)
           /\ ft[x].instant < ft[y].instant
                  => FileTimeLess(ft[x].val, ft[y].val)

\* C9 (nanosecond range): every FileTime the public surface produces has
\* nanoseconds() < 1_000_000_000, and a constructor argument of one billion
\* or more is carried into the seconds.
C9_NanosInRange ==
    \A s \in Slots :
        ft[s].st = "value"
        => /\ nanoseconds(ft[s].val) < NANOS_PER_SEC
           /\ ft[s].via = "from_seconds_since_1970"
                  => /\ nanoseconds(ft[s].val) = ft[s].argN % NANOS_PER_SEC
                     /\ seconds(ft[s].val)
                            = (ft[s].argS + EpochShift
                                   + (ft[s].argN \div NANOS_PER_SEC)) % U64

---------------------------------------------------------------------------
(* Properties of the sequential write paths *)

\* C1 (round trip): after a successful set_file_times(path, A, T) with
\* nanoseconds below one billion, from_last_modification_time of the path
\* is T cut to the precision of the primitive that wrote it (T itself
\* through utimensat, whole microseconds through utimes), and
\* from_last_access_time is A cut the same way.
C1_RoundTrip ==
    \A t \in Threads :
        LET c == call[t] IN
        (/\ build.target \in {"lib_utimensat", "lib_utimes"}
         /\ pc[t] = "done" /\ c.op = "set_file_times" /\ c.result = "Ok"
         /\ c.atime.nanos < NANOS_PER_SEC /\ c.mtime.nanos < NANOS_PER_SEC)
        => LET low == Last(PrimEvents(c)).ev \in LowPrims
               cut(n) == IF low THEN Trunc1000(n) ELSE n
               meta == metadata(fs, c.path) IN
           /\ from_last_modification_time(meta)
                  = FileTime(c.mtime.seconds, cut(c.mtime.nanos))
           /\ from_last_access_time(meta)
                  = FileTime(c.atime.seconds, cut(c.atime.nanos))

C1_Witness ==
    \E t \in Threads :
        /\ build.target = "lib_utimes" /\ pc[t] = "done"
        /\ call[t].op = "set_file_times" /\ call[t].result = "Ok"
        /\ call[t].path = "L"
        /\ call[t].mtime.nanos = 1500 /\ call[t].atime.seconds = U64 - 1
        /\ from_last_modification_time(metadata(fs, "L")) = FileTime(1, 1000)

\* C3 (single-field fill): on the utimes implementation a successful
\* set_file_mtime(path, M) leaves the access time of the file as it was
\* just before the call, whatever its nanoseconds, and a successful
\* set_file_atime(path, A) leaves the modification time as it was.
C3_SingleFieldFill ==
    \A t \in Threads :
        LET c == call[t]
            i == Resolve(c.path) IN
        (/\ build.target = "utimes" /\ pc[t] = "done" /\ c.result = "Ok"
         /\ c.op \in {"set_file_mtime", "set_file_atime"})
        => IF c.op = "set_file_mtime"
           THEN /\ c.after[i].atime = c.before[i].atime
                /\ c.after[i].atime_nsec = c.before[i].atime_nsec
           ELSE /\ c.after[i].mtime = c.before[i].mtime
                /\ c.after[i].mtime_nsec = c.before[i].mtime_nsec

\* C10 (operating-system failures pass through): when a native write
\* primitive fails with an error other than ENOSYS, the call returns that
\* error at once: no further primitive, no store to the symbol cache or to
\* the ENOSYS latch, and both are as the failing primitive found them.
C10_ErrorsPassThrough ==
    \A t \in Threads :
        LET c == call[t] IN
        \A i \in 1 .. Len(c.log) :
            (IsPrim(c.log[i]) /\ c.log[i].out \notin {"Ok", "ENOSYS"})
            => /\ i = Len(c.log)
               /\ pc[t] = "done"
               /\ c.result = c.log[i].out
               /\ c.after = <<>>

C10_Witness ==
    \E t \in Threads :
        /\ IsLinux /\ ~build.feature_utimensat /\ pc[t] = "done"
        /\ call[t].result = "EACCES"
        /\ Last(call[t].log).ev = "utimensat"
        /\ INVALID = [s \in Syms |-> FALSE]
        /\ ADDR["utimensat"] = SymbolAddress("utimensat")

---------------------------------------------------------------------------
(* Properties of the adapters that open the file themselves *)

\* an io::Result::Err handed back to the caller
IsErrorResult(res) == res \notin {"none", "pending", "Ok", "panic"}

\* C11 (single-sided requests where nothing can fill): on Redox
\* (set_file_times, set_symlink_file_times) and on the Windows symlink path
\* (set_symlink_file_times) a request with exactly one of atime / mtime is
\* handed back to the caller as an error result, before any file is opened
\* and with no timestamp modified.
C11_SingleSidedRejected ==
    \A t \in Threads :
        LET c == call[t] IN
        (/\ pc[t] = "done" /\ SingleSided(c.atime, c.mtime)
         /\ \/ build.target = "redox"
            \/ build.target = "windows" /\ c.op = "set_symlink_file_times")
        => /\ IsErrorResult(c.result)
           /\ \A i \in 1 .. Len(c.log) :
                 c.log[i].ev \notin {"open", "futimens", "SetFileTime"}
           /\ c.after = <<>>

---------------------------------------------------------------------------
(* from_creation_time: the facade of lib.rs and the adapters of            *)
(* windows.rs, unix/mod.rs (unix.rs has the same) and redox.rs             *)

\* targets whose struct stat has st_birthtime (the birthtim! list)
HasBirthtime == build.target = "macos"

Absent == [st |-> "absent", val |-> zero, via |-> "none", argS |-> 0,
           argN |-> 0, instant |-> 0]

\* an Option<FileTime> in a slot: Some(v) or None, with the adapter that
\* made it and the creation / birth time field of the metadata it read
Answered(o, how, s, n) ==
    IF o.some THEN [Produced(unwrap(o), how, s, n, 0) EXCEPT !.st = "value"]
    ELSE [Absent EXCEPT !.via = how, !.argS = s, !.argN = n]

\* lib.rs from_creation_time: imp(meta) of the target
from_creation_time(meta) ==
    IF IsWindows
    THEN Some(from_os_repr_windows(meta.last_access_time))
    ELSE IF HasBirthtime
    THEN Some(from_os_repr_unix(AsU64(meta.st_birthtime),
                                meta.st_birthtime_nsec))
    ELSE None

\* windows.rs from_intervals and from_creation_time
from_intervals(ticks) ==
    FileTime(ticks \div INTERVALS_PER_SEC, (ticks % INTERVALS_PER_SEC) * 100)

windows_from_creation_time(meta) == Some(from_intervals(meta.creation_time))

\* unix/mod.rs from_creation_time (seconds: i64 there, kept as the word)
unix_from_creation_time(meta) ==
    IF HasBirthtime
    THEN Some(FileTime(AsU64(meta.st_birthtime), meta.st_birthtime_nsec))
    ELSE None

\* redox.rs from_creation_time
redox_from_creation_time(meta) == None

\* metadata snapshots whose three times differ
CreationMetas ==
    IF IsWindows
    THEN {WinTimes(c, a, 5) : c \in {0, 10000015}, a \in {20000000, 30000001}}
    ELSE {[atime |-> 1, atime_nsec |-> 7, mtime |-> 2, mtime_nsec |-> 9,
           st_birthtime |-> sec, st_birthtime_nsec |-> nsec] :
              sec \in I64_MIN .. I64_MAX, nsec \in StatNanos}

\* the creation / birth time field of a snapshot, as (seconds or ticks, nsec)
BirthField(meta) ==
    IF IsWindows THEN <<meta.creation_time, 0>>
    ELSE <<meta.st_birthtime, meta.st_birthtime_nsec>>

CreationInit ==
    /\ build \in [target : {"unix", "macos", "windows", "redox"},
                  overflow_checks : {FALSE}, feature_utimensat : {FALSE}]
    /\ ft = [s \in Slots |-> EmptySlot]
    /\ WriteAtRest

CallFromCreationTime(s) ==
    \E meta \in CreationMetas :
        /\ ft' = [ft EXCEPT ![s] =
                     Answered(from_creation_time(meta), "from_creation_time",
                              BirthField(meta)[1], BirthField(meta)[2])]
        /\ UNCHANGED <<build, writeVars>>

CallWindowsFromCreationTime(s) ==
    /\ IsWindows
    /\ \E meta \in CreationMetas :
        /\ ft' = [ft EXCEPT ![s] =
                     Answered(windows_from_creation_time(meta),
                              "windows::from_creation_time",
                              BirthField(meta)[1], BirthField(meta)[2])]
        /\ UNCHANGED <<build, writeVars>>

CallUnixFromCreationTime(s) ==
    /\ build.target \in {"unix", "macos"}
    /\ \E meta \in CreationMetas :
        /\ ft' = [ft EXCEPT ![s] =
                     Answered(unix_from_creation_time(meta),
                              "unix::from_creation_time",
                              BirthField(meta)[1], BirthField(meta)[2])]
        /\ UNCHANGED <<build, writeVars>>

CallRedoxFromCreationTime(s) ==
    /\ build.target = "redox"
    /\ \E meta \in CreationMetas :
        /\ ft' = [ft EXCEPT ![s] =
                     Answered(redox_from_creation_time(meta),
                              "redox::from_creation_time",
                              BirthField(meta)[1], BirthField(meta)[2])]
        /\ UNCHANGED <<build, writeVars>>

CreationNext ==
    \E s \in Slots :
        \/ CallFromCreationTime(s)
        \/ CallWindowsFromCreationTime(s)
        \/ CallUnixFromCreationTime(s)
        \/ CallRedoxFromCreationTime(s)

SpecCreation == CreationInit /\ [][CreationNext]_vars

\* C12 (creation time is the birth-time field or absent): from_creation_time
\* of a metadata snapshot is the value of its creation / birth time field
\* (always present on Windows) or absent, never the access or modification
\* time in its place.
C12_CreationTime ==
    \A s \in Slots :
        ft[s].via \in {"from_creation_time", "windows::from_creation_time",
                       "unix::from_creation_time", "redox::from_creation_time"}
        => /\ IsWindows => ft[s].st = "value"
           /\ ft[s].st \in {"value", "absent"}
           /\ ft[s].st = "value"
                  => ft[s].val
                         = IF IsWindows THEN from_intervals(ft[s].argS)
                           ELSE FileTime(AsU64(ft[s].argS), ft[s].argN)

\* the SetFileTime events of a call
SetFileTimeEvents(c) == SelectSeq(c.log, LAMBDA e : e.ev = "SetFileTime")

\* C13 (absent fields on Windows): in set_file_times and
\* set_file_handle_times a timestamp absent from the request goes to
\* SetFileTime as null and the file keeps its prior time, never zero; the
\* creation time goes as null on every call, so no write changes it.
C13_AbsentUnchanged ==
    \A t \in Threads :
        LET c == call[t]
            evs == SetFileTimeEvents(c)
            i == WindowsTarget(c.op, c.path) IN
        (build.target \in {"windows", "lib_windows"} /\ pc[t] = "done")
        => /\ \A k \in 1 .. Len(evs) :
                 /\ evs[k].arg[1].null
                 /\ ~c.atime.some => evs[k].arg[2].null
                 /\ ~c.mtime.some => evs[k].arg[3].null
           /\ c.result = "Ok" /\ Len(evs) = 1
                  => /\ fs = c.after
                     /\ c.after[i].creation_time = c.before[i].creation_time
                     /\ ~c.atime.some
                            => c.after[i].last_access_time
                                   = c.before[i].last_access_time
                     /\ ~c.mtime.some
                            => c.after[i].last_write_time
                                   = c.before[i].last_write_time
                     /\ \A j \in Inodes \ {i} : c.after[j] = c.before[j]

C13_Witness ==
    \E t \in Threads :
        /\ build.target = "windows" /\ pc[t] = "done"
        /\ call[t].op = "set_file_handle_times" /\ call[t].result = "Ok"
        /\ ~call[t].atime.some /\ call[t].mtime.some
        /\ call[t].after["F"].last_write_time = 10000015
        /\ call[t].after["F"].last_access_time = 30000015
        /\ call[t].after["F"].creation_time = 5

---------------------------------------------------------------------------
(* Properties relating two write calls *)

\* what the read adapters return for a path
ReadBack(fsv, path) ==
    <<from_last_access_time(metadata(fsv, path)),
      from_last_modification_time(metadata(fsv, path))>>

\* the request of call c, entered again
Again(c) == NewCall(c.op, c.path, c.atime, c.mtime, ADDR, INVALID)

\* C14 (idempotence): for every pair (A, M) and every prior file state,
\* set_file_times(path, A, M) performed twice in succession leaves the same
\* read-back access and modification times as performed once: a successful
\* call on a file that an identical call has just written changes nothing,
\* and the same call made once more reads back the same.
C14_Idempotence ==
    \A t \in Threads :
        LET c == call[t]
            i == Resolve(c.path) IN
        (/\ build.target \in {"lib_utimensat", "lib_utimes"}
         /\ pc[t] = "done" /\ c.op = "set_file_times" /\ c.result = "Ok")
        => LET once == LibRun(Again(c), c.before, "Ok").fs
               twice == LibRun(Again(c), once, "Ok").fs IN
           /\ fs = once
           /\ ReadBack(twice, c.path) = ReadBack(once, c.path)
           /\ ReadBack(c.before, c.path) = ReadBack(once, c.path)
                  => c.after = c.before

C14_Witness ==
    \E t \in Threads :
        /\ build.target = "lib_utimes" /\ pc[t] = "done"
        /\ call[t].op = "set_file_times" /\ call[t].result = "Ok"
        /\ call[t].path = "F" /\ call[t].mtime.nanos = 1500
        /\ Len(history) >= 2 /\ history[Len(history) - 1] = "set_file_times"
        /\ call[t].before = call[t].after
        /\ call[t].after["F"].mtime_nsec = 1000

\* the outcomes of the native calls of a write call, in order
Outcomes(c) == [k \in 1 .. Len(PrimEvents(c)) |-> PrimEvents(c)[k].out]

\* a finished handle call h and a finished path call p on the regular file
\* F, with the same request, entered with the same values in their own
\* cache and latch, and answered alike by the operating system
SameCalls(h, p) ==
    /\ h.op = "set_file_handle_times" /\ p.op = "set_file_times"
    /\ h.path = "F" /\ p.path = "F"
    /\ h.atime = p.atime /\ h.mtime = p.mtime
    /\ h.start.ADDR["futimens"] = 0 /\ p.start.ADDR["utimensat"] = 0
    /\ ~h.start.INVALID["futimens"] /\ ~p.start.INVALID["utimensat"]
    /\ Outcomes(h) = Outcomes(p)

SameEffect(h, p) ==
    /\ h.result = p.result
    /\ h.result = "Ok" => h.after["F"] = p.after["F"]

\* utimes.rs: the path call for the request of a finished handle call h,
\* from the file state and with the answers h met
PathTwin(h, fsBefore) ==
    LET metas == SelectSeq(h.log, LAMBDA e : e.ev = "metadata")
        mout == IF metas = <<>> THEN "Ok" ELSE metas[1].out
        out == IF PrimEvents(h) = <<>> THEN "Ok" ELSE PrimEvents(h)[1].out IN
    UtimesRun(NewCall("set_file_times", h.path, h.atime, h.mtime,
                      ADDR, INVALID),
              fsBefore, mout, out)

UtimesHandleAsPath ==
    \A t \in Threads :
        LET h == call[t]
            fsBefore == IF h.after = <<>> THEN fs ELSE h.before
            twin == PathTwin(h, fsBefore) IN
        (/\ build.target = "utimes" /\ pc[t] = "done"
         /\ h.op = "set_file_handle_times")
        => /\ twin.call.result = h.result
           /\ twin.fs = fs

---------------------------------------------------------------------------
(* Properties of the capability state of linux.rs *)

\* C16 (the capability state is monotonic): in every step of every
\* execution, concurrent ones included, each symbol cache ADDR stays as it
\* is once it has left 0, leaves 0 only for 1 or the resolved address, and
\* each latch INVALID that is true stays true.
C16_Monotonic ==
    [][\A s \in Syms :
          /\ ADDR[s] # 0 => ADDR'[s] = ADDR[s]
          /\ ADDR[s] = 0 => ADDR'[s] \in {0, 1, SymbolAddress(s)}
          /\ INVALID[s] => INVALID'[s]]_vars

\* both threads looked the symbol up and stored it, and the latch is set
C16_Witness ==
    /\ ADDR["utimensat"] = SymbolAddress("utimensat")
    /\ INVALID["utimensat"]
    /\ \A t \in Threads :
          /\ call[t].op = "set_file_times"
          /\ \E k \in 1 .. Len(call[t].log) : call[t].log[k].ev = "store_ADDR"
          /\ \E k \in 1 .. Len(call[t].log) :
                call[t].log[k].ev = "store_INVALID"

\* the lookups a call has made
Lookups(c) == SelectSeq(c.log, IsDlsym)

\* C17 as claimed (symbol resolution happens at most once): for each of
\* utimensat and futimens, dlsym is performed at most once in the life of
\* the process, whatever the number of calls and of threads making their
\* first call together: a lookup is made only while the cache is unknown.
C17_LookupOnce ==
    [][\A t \in Threads :
          (pc[t] = "dlsym" /\ pc'[t] # "dlsym")
          => ADDR[SymOf(call[t].op)] = 0]_vars

\* C17 as amended: a write call looks its symbol up at most once, only
\* after it has loaded 0 from the cache, and never when the cache was
\* stored before the call began; calls that overlap in their first use may
\* each make the lookup.
C17_LookupOncePerCall ==
    \A t \in Threads :
        LET c == call[t] IN
        c.op # "none"
        => /\ Len(Lookups(c)) <= 1
           /\ c.start.ADDR[SymOf(c.op)] # 0 => Lookups(c) = <<>>
           /\ \A k \in 1 .. Len(c.log) :
                 IsDlsym(c.log[k])
                 => k > 1 /\ c.log[k - 1] = Event("load_ADDR", "0", NoArg)

C17_Witness ==
    /\ \A t \in Threads :
          /\ pc[t] = "done" /\ call[t].op = "set_file_times"
          /\ Len(Lookups(call[t])) = 1
    /\ ADDR["utimensat"] = SymbolAddress("utimensat")

IsLowPrim(e) == e.ev \in LowPrims

\* the call has fallen through to utimes / lutimes / futimes
ReachedFallback(t) ==
    \/ pc[t] = "fallback"
    \/ \E k \in 1 .. Len(call[t].log) :
          IsLowPrim(call[t].log[k]) \/ call[t].log[k].ev = "unwrap"

C18_AbsentNotFound ==
    \E t \in Threads :
        /\ pc[t] = "done" /\ call[t].result = "NotFound"
        /\ ~call[t].atime.some /\ call[t].mtime.some

---------------------------------------------------------------------------
(* The descriptor of a Redox write call *)

EventsOf(c, name) == SelectSeq(c.log, LAMBDA e : e.ev = name)

\* C19 (Redox descriptor release): in every Redox write call whose open
\* succeeded, futimens is issued once and the descriptor is closed exactly
\* once, after futimens and before the call returns, whether futimens
\* succeeded or failed; the result of the call is the result of futimens,
\* whatever close answered.  When open fails there is no futimens and no
\* close, and the result is the error of open.
C19_DescriptorReleased ==
    \A t \in Threads :
        LET c == call[t]
            opens == EventsOf(c, "open")
            writes == EventsOf(c, "futimens")
            closes == EventsOf(c, "close") IN
        (build.target = "redox" /\ pc[t] = "done" /\ opens # <<>>)
        => /\ Len(opens) = 1
           /\ opens[1].out = "Ok"
              => /\ Len(writes) = 1 /\ Len(closes) = 1
                 /\ Len(c.log) = 3
                 /\ c.log[2].ev = "futimens" /\ c.log[3].ev = "close"
                 /\ c.result = writes[1].out
           /\ opens[1].out # "Ok"
              => /\ writes = <<>> /\ closes = <<>>
                 /\ c.result = opens[1].out
                 /\ c.after = c.before

\* futimens failed, close failed too, and the call returned futimens's error
C19_Witness ==
    \E t \in Threads :
        LET c == call[t] IN
        /\ build.target = "redox" /\ pc[t] = "done"
        /\ Len(c.log) = 3
        /\ c.log[1] = Event("open", "Ok", NoArg)
        /\ c.log[2].ev = "futimens" /\ c.log[2].out = "EACCES"
        /\ c.log[3] = Event("close", "EIO", NoArg)
        /\ c.result = "EACCES"

---------------------------------------------------------------------------
(* Windows tick counts read from one file and written to another: the     *)
(* read adapters of windows.rs (lib.rs for lib_windows) fill the slots    *)
(* from the metadata of F, and set_file_times writes the slots to L.      *)

\* tick counts at the edges of the seconds, of the DWORDs and of the sign
TickBoundaries ==
    {0, 1, 99, INTERVALS_PER_SEC - 1, INTERVALS_PER_SEC,
     3 * INTERVALS_PER_SEC + 15, DWORD - 1, DWORD, TICK_I64_MAX,
     TICK_I64_MAX + 1, TickWord - 1}

\* windows.rs from_last_access_time / from_last_modification_time
windows_from_last_access_time(meta) == from_intervals(meta.last_access_time)
windows_from_last_modification_time(meta) ==
    from_intervals(meta.last_write_time)

\* lib.rs from_last_access_time / from_last_modification_time on Windows
lib_windows_from_last_access_time(meta) ==
    from_os_repr_windows(meta.last_access_time)
lib_windows_from_last_modification_time(meta) ==
    from_os_repr_windows(meta.last_write_time)

TicksInit ==
    /\ build \in [target : {"windows", "lib_windows"},
                  overflow_checks : BOOLEAN, feature_utimensat : {FALSE}]
    /\ ft = [s \in Slots |-> EmptySlot]
    /\ env = [libc_utimensat |-> TRUE, libc_futimens |-> TRUE,
              kernel_utimensat |-> TRUE, threads |-> {"t1"}]
    /\ \E a \in TickBoundaries, w \in TickBoundaries :
          fs = [i \in Inodes |-> IF i = "F" THEN WinTimes(0, a, w)
                                 ELSE WinTimes(0, 5, 7)]
    /\ ADDR = [s \in {"utimensat", "futimens"} |-> 0]
    /\ INVALID = [s \in {"utimensat", "futimens"} |-> FALSE]
    /\ pc = [t \in Threads |-> "idle"]
    /\ call = [t \in Threads |-> IdleCall]
    /\ history = <<>>

\* FileTime::from_last_access_time(&fs::metadata("F")?) into slot a
ReadAccessTime ==
    /\ ft["a"].st = "none"
    /\ LET meta == fs["F"]
           v == IF build.target = "lib_windows"
                THEN lib_windows_from_last_access_time(meta)
                ELSE windows_from_last_access_time(meta) IN
       ft' = [ft EXCEPT !["a"] = Produced(v, "from_last_access_time",
                                          meta.last_access_time, 0, 0)]
    /\ UNCHANGED <<build, writeVars>>

\* FileTime::from_last_modification_time(&fs::metadata("F")?) into slot b
ReadModificationTime ==
    /\ ft["b"].st = "none"
    /\ LET meta == fs["F"]
           v == IF build.target = "lib_windows"
                THEN lib_windows_from_last_modification_time(meta)
                ELSE windows_from_last_modification_time(meta) IN
       ft' = [ft EXCEPT !["b"] = Produced(v, "from_last_modification_time",
                                          meta.last_write_time, 0, 0)]
    /\ UNCHANGED <<build, writeVars>>

\* set_file_times("L", atime, mtime) with the two values read
WriteTicks(t) ==
    /\ t \in env.threads /\ pc[t] = "idle" /\ Len(history) < MaxCalls
    /\ ft["a"].st = "value" /\ ft["b"].st = "value"
    /\ LET a == ft["a"].val
           m == ft["b"].val
           c == NewCall("set_file_times", "L",
                        Some(a), Some(m), ADDR, INVALID) IN
       \E oout \in {"Ok"} \cup OsErrors, out \in {"Ok"} \cup OsErrors :
          LET run == WindowsRun(c, fs, oout, out) IN
          /\ call' = [call EXCEPT ![t] = run.call]
          /\ fs' = run.fs
          /\ history' = Append(history, "set_file_times")
    /\ pc' = [pc EXCEPT ![t] = "done"]
    /\ UNCHANGED <<build, ft, env, ADDR, INVALID>>

TicksNext ==
    \/ ReadAccessTime
    \/ ReadModificationTime
    \/ \E t \in Threads : WriteTicks(t) \/ Return(t)

SpecTicks == TicksInit /\ [][TicksNext]_vars

\* what a read adapter must answer for a tick count
TicksAsFileTime(ticks, v) ==
    /\ v.seconds = ticks \div 10000000
    /\ v.nanos = (ticks % 10000000) * 100
    /\ v.nanos % 100 = 0 /\ v.nanos < 1000000000

\* C20 (Windows tick conversion): for every tick count t of a file's
\* metadata the read adapter yields seconds = t / 10_000_000 and
\* nanos = (t % 10_000_000) * 100, and the write conversion of that value
\* hands SetFileTime the two words of exactly t.
C20_TickRoundTrip ==
    /\ \A s \in Slots :
          ft[s].st # "none"
          => ft[s].st = "value" /\ TicksAsFileTime(ft[s].argS, ft[s].val)
    /\ \A t \in Threads :
          (pc[t] = "done" /\ call[t].op = "set_file_times"
           /\ \E k \in 1 .. Len(call[t].log) :
                 call[t].log[k] = Event("open", "Ok", NoArg))
          => /\ call[t].result # "panic"
             /\ SetFileTimeEvents(call[t]) # <<>>
             /\ \A k \in 1 .. Len(SetFileTimeEvents(call[t])) :
                   LET args == SetFileTimeEvents(call[t])[k].arg IN
                   /\ args[2] = FILETIME(fs["F"].last_access_time % DWORD,
                                         fs["F"].last_access_time \div DWORD)
                   /\ args[3] = FILETIME(fs["F"].last_write_time % DWORD,
                                         fs["F"].last_write_time \div DWORD)

---------------------------------------------------------------------------
(* The native time structures a write call passes *)

\* the request's access time (i = 1) or modification time (i = 2)
Requested(c, i) == IF i = 1 THEN c.atime ELSE c.mtime

\* C21 (low-precision truncation): every call of utimes / lutimes / futimes
\* is passed, for each of the two timestamps, tv_sec = seconds and
\* tv_usec = floor(nanoseconds / 1000), with tv_usec in [0, 1_000_000): the
\* conversion truncates and never carries into the seconds.
C21_LowPrecisionTruncation ==
    \A t \in Threads :
        LET c == call[t] IN
        \A k \in 1 .. Len(c.log) :
            IsLowPrim(c.log[k])
            => \A i \in 1 .. 2 :
                  LET o == Requested(c, i)
                      tv == c.log[k].arg[i] IN
                  /\ o.some => /\ tv.tv_sec = o.seconds
                               /\ tv.tv_usec = o.nanos \div 1000
                  /\ 0 <= tv.tv_usec /\ tv.tv_usec < 1000000

\* the seconds and nanoseconds of access (i = 1) or modification (i = 2)
\* in a stat record
StatField(st, i) ==
    IF i = 1 THEN <<st.atime, st.atime_nsec>> ELSE <<st.mtime, st.mtime_nsec>>

\* C22 (omit sentinel on the high-precision path): utimensat / futimens is
\* passed [access, modification], a present timestamp as (tv_sec = seconds,
\* tv_nsec = nanoseconds), which for nanoseconds < 1e9 is not the sentinel,
\* and an absent one as tv_nsec = UTIME_OMIT; a successful call changes
\* exactly the fields that were present, on the file the call addresses.
C22_OmitSentinel ==
    \A t \in Threads :
        LET c == call[t] IN
        \A k \in 1 .. Len(c.log) :
            IsHighPrim(c.log[k])
            => LET e == c.log[k]
                   inode == HighTarget(c.op, c.path, flags(c.op)) IN
               /\ \A i \in 1 .. 2 :
                     LET o == Requested(c, i) IN
                     /\ o.some
                        => /\ e.arg[i] = [tv_sec |-> o.seconds,
                                          tv_nsec |-> o.nanos]
                           /\ o.nanos < 1000000000
                                  => e.arg[i].tv_nsec # 1073741822
                     /\ ~o.some => e.arg[i].tv_nsec = 1073741822
                     /\ e.out = "Ok"
                        => StatField(c.after[inode], i)
                              = IF o.some THEN <<o.seconds, o.nanos>>
                                ELSE StatField(c.before[inode], i)
               /\ e.out = "Ok"
                  => \A j \in Inodes \ {inode} : c.after[j] = c.before[j]

\* a successful call with only the modification time present
C22_Witness ==
    \E t \in Threads :
        LET c == call[t] IN
        /\ pc[t] = "done" /\ c.result = "Ok"
        /\ ~c.atime.some /\ c.mtime.some
        /\ Len(c.log) > 0 /\ IsHighPrim(Last(c.log))
        /\ Last(c.log).arg[1].tv_nsec = UTIME_OMIT
        /\ LET inode == HighTarget(c.op, c.path, flags(c.op)) IN
           /\ StatField(c.after[inode], 1) = StatField(c.before[inode], 1)
           /\ StatField(c.after[inode], 2) # StatField(c.before[inode], 2)

====
